---- MODULE Spec2Model ----
(***************************************************************************)
(* svg2gcode: a model of generateGCode (src/src/lib/gcode.ts).             *)
(*                                                                         *)
(* Numbers.  Every JavaScript number is a binary floating-point value; the *)
(* model keeps the IEEE-754 round-to-nearest-even arithmetic and reduces   *)
(* only the width of the significand, from 53 bits to Precision bits.  A   *)
(* number is a pair <<m, e>> of value m * 2^e, m odd (zero is <<0, 0>>),   *)
(* so two numbers are equal exactly when their pairs are equal.            *)
(***************************************************************************)
EXTENDS Integers, Sequences, FiniteSets, TLC

\* Width of the significand of a number, in bits.
Precision == 14

Abs(n) == IF n < 0 THEN -n ELSE n

Sgn(n) == IF n < 0 THEN -1 ELSE IF n = 0 THEN 0 ELSE 1

Pow2(n) == 2 ^ n

(***************************************************************************)
(* An operation binds its operands before it uses them, so that each       *)
(* operand is evaluated once: The(S) is the element of the singleton S,    *)
(* and an operation has the form The({ result : x \in {a}, y \in {b} }).   *)
(***************************************************************************)
The(S) == CHOOSE r \in S : TRUE

RECURSIVE BitLen(_)
BitLen(n) == IF n = 0 THEN 0 ELSE 1 + BitLen(n \div 2)

RECURSIVE Norm(_, _)
\* The canonical pair of m * 2^e, for m >= 0.
Norm(m, e) ==
    IF m = 0 THEN <<0, 0>>
    ELSE IF m % 2 = 0 THEN Norm(m \div 2, e + 1)
    ELSE <<m, e>>

Neg(a) == The({ <<-x[1], x[2]>> : x \in {a} })

\* mag * 2^ex (mag >= 0 of len bits) rounded to Precision bits, ties to even.
RoundBits(mag, ex, len) ==
    IF len <= Precision THEN Norm(mag, ex)
    ELSE LET s    == len - Precision
             hi   == mag \div Pow2(s)
             lo   == mag % Pow2(s)
             half == Pow2(s - 1)
             up   == IF lo > half \/ (lo = half /\ hi % 2 = 1) THEN 1 ELSE 0
         IN  Norm(hi + up, ex + s)

\* Round the magnitude m * 2^e (m >= 0) to Precision bits, ties to even.
RoundMag(m, e) == The({ RoundBits(mag, ex, BitLen(mag)) : mag \in {m}, ex \in {e} })

Round(sign, m, e) ==
    The({ IF sign < 0 THEN <<-r[1], r[2]>> ELSE r : r \in {RoundMag(m, e)} })

RECURSIVE DivBits(_, _, _, _)
\* Long division: n more quotient bits of rem / d, then one sticky bit.
DivBits(q, rem, d, n) ==
    IF n = 0 THEN 2 * q + (IF rem = 0 THEN 0 ELSE 1)
    ELSE IF 2 * rem >= d THEN DivBits(2 * q + 1, 2 * rem - d, d, n - 1)
    ELSE DivBits(2 * q, 2 * rem, d, n - 1)

\* The number of quotient bits to develop beyond n \div d.
ExtraBits(n, d) ==
    IF Precision + 2 + BitLen(d) - BitLen(n) < 0 THEN 0
    ELSE Precision + 2 + BitLen(d) - BitLen(n)

\* The number nearest to the rational n / d * 2^e, for n >= 0 and d > 0.
RoundRat(n, d, e) ==
    The({ RoundMag(DivBits(n \div d, n % d, d, k), e - k - 1) : k \in {ExtraBits(n, d)} })

\* a * b
FMul(a, b) ==
    The({ Round(Sgn(x[1]) * Sgn(y[1]), Abs(x[1]) * Abs(y[1]), x[2] + y[2]) :
          x \in {a}, y \in {b} })

\* a / b, b nonzero
FDiv(a, b) ==
    The({ IF x[1] = 0 THEN <<0, 0>>
          ELSE The({ IF Sgn(x[1]) * Sgn(y[1]) < 0 THEN <<-r[1], r[2]>> ELSE r :
                     r \in {RoundRat(Abs(x[1]), Abs(y[1]), x[2] - y[2])} }) :
          x \in {a}, y \in {b} })

\* The position of the leading bit of a nonzero number.
Top(a) == BitLen(Abs(a[1])) + a[2]

\* m * 2^e as a signed integer count of 2^base, the bits below 2^base kept
\* as one sticky bit in the last place (base is one below the guard bits).
Aligned(a, base) ==
    LET m == Abs(a[1])
        d == a[2] - base
    IN  Sgn(a[1]) *
        ( IF d >= 1 THEN m * Pow2(d)
          ELSE IF d < -29 THEN 1
          ELSE LET sh == Pow2(1 - d)
               IN  2 * (m \div sh) + (IF m % sh = 0 THEN 0 ELSE 1) )

\* The exponent the operands of a sum are aligned to: below the guard bits.
SumBase(x, y) == (IF Top(x) >= Top(y) THEN Top(x) ELSE Top(y)) - Precision - 4

\* a + b
FAdd(a, b) ==
    The({ IF x[1] = 0 THEN y
          ELSE IF y[1] = 0 THEN x
          ELSE The({ The({ Round(Sgn(s), Abs(s), base) :
                           s \in {Aligned(x, base) + Aligned(y, base)} }) :
                     base \in {SumBase(x, y)} }) :
          x \in {a}, y \in {b} })

\* a - b
FSub(a, b) == FAdd(a, Neg(b))

FLt(a, b) == FSub(a, b)[1] < 0

\* Math.min
FMin(a, b) == The({ IF FLt(y, x) THEN y ELSE x : x \in {a}, y \in {b} })

\* Math.abs
FAbs(a) == The({ <<Abs(x[1]), x[2]>> : x \in {a} })

\* An integer as a number.
FInt(n) == Round(Sgn(n), Abs(n), 0)

\* Math.ceil, as an integer.
Ceil(a) ==
    The({ IF x[2] >= 0 THEN x[1] * Pow2(x[2]) ELSE -((-x[1]) \div Pow2(-x[2])) : x \in {a} })

RECURSIVE SqrtBits(_, _, _)
\* Digit-by-digit square root: n more bits of the root, then a sticky bit.
SqrtBits(root, rem, n) ==
    IF n = 0 THEN 2 * root + (IF rem = 0 THEN 0 ELSE 1)
    ELSE IF 4 * rem >= 4 * root + 1
         THEN SqrtBits(2 * root + 1, 4 * rem - (4 * root + 1), n - 1)
         ELSE SqrtBits(2 * root, 4 * rem, n - 1)

ISqrt(n) == CHOOSE r \in 0..Pow2((BitLen(n) + 1) \div 2) : r * r <= n /\ n < (r + 1) * (r + 1)

\* The number nearest to the square root of m * 2^e, for m > 0 and e even.
RoundSqrt(m, e) ==
    The({ RoundMag(SqrtBits(r0, m - r0 * r0, Precision + 2 - BitLen(r0)),
                   (e \div 2) - (Precision + 2 - BitLen(r0)) - 1) :
          r0 \in {ISqrt(m)} })

\* Math.sqrt of a >= 0
FSqrt(a) ==
    The({ IF x[1] = 0 THEN <<0, 0>>
          ELSE IF x[2] % 2 = 0 THEN RoundSqrt(x[1], x[2])
          ELSE RoundSqrt(2 * x[1], x[2] - 1) :
          x \in {a} })

\* Number.prototype.toFixed(3): the decimal with three places nearest to a
\* (ties away from zero), as a signed count of thousandths.
ToFixed3(a) ==
    The({ Sgn(x[1]) *
          ( IF x[2] >= 0 THEN Abs(x[1]) * Pow2(x[2]) * 1000
            ELSE IF x[2] < -29 THEN 0
            ELSE (2000 * Abs(x[1]) + Pow2(-x[2])) \div Pow2(1 - x[2]) ) :
          x \in {a} })

\* The number a decimal literal n / d denotes (the parsers' string to number).
Num(n, d) ==
    LET r == RoundRat(Abs(n), d, 0)
    IN  IF n < 0 THEN Neg(r) ELSE r

\* A literal given in thousandths, and one given in millionths.
Dec(n) == Num(n, 1000)

Mic(n) == Num(n, 1000000)

Zero == <<0, 0>>

(***************************************************************************)
(* The input: the path elements of the document, each the command list     *)
(* makeAbsolute(parsePathData(d)) returns.  After makeAbsolute every       *)
(* command carries absolute x and y; a closepath carries the start of its  *)
(* subpath.                                                                *)
(***************************************************************************)
Cmd(code, x, y, x1, y1, x2, y2) ==
    [code |-> code, x |-> x, y |-> y, x1 |-> x1, y1 |-> y1, x2 |-> x2, y2 |-> y2]

\* Commands with coordinates written in thousandths.
MoveTo(x, y) == Cmd("M", Dec(x), Dec(y), Zero, Zero, Zero, Zero)

LineTo(x, y) == Cmd("L", Dec(x), Dec(y), Zero, Zero, Zero, Zero)

HorizTo(x, y) == Cmd("H", Dec(x), Dec(y), Zero, Zero, Zero, Zero)

VertTo(x, y) == Cmd("V", Dec(x), Dec(y), Zero, Zero, Zero, Zero)

ClosePath(x, y) == Cmd("Z", Dec(x), Dec(y), Zero, Zero, Zero, Zero)

ArcTo(x, y) == Cmd("A", Dec(x), Dec(y), Zero, Zero, Zero, Zero)

QuadTo(x1, y1, x, y) == Cmd("Q", Dec(x), Dec(y), Dec(x1), Dec(y1), Zero, Zero)

CubicTo(x1, y1, x2, y2, x, y) == Cmd("C", Dec(x), Dec(y), Dec(x1), Dec(y1), Dec(x2), Dec(y2))

\* Commands with coordinates written in millionths.
FineMoveTo(x, y) == Cmd("M", Mic(x), Mic(y), Zero, Zero, Zero, Zero)

FineLineTo(x, y) == Cmd("L", Mic(x), Mic(y), Zero, Zero, Zero, Zero)

(***************************************************************************)
(* Curve flattening and subpath segmentation.                              *)
(***************************************************************************)
\* Scale factor for Clipper.
SCALE == 1000

\* Default subdivision count of flattenCubicBezier.
CubicSegments == 10

\* Default subdivision count of flattenQuadraticBezier.
QuadSegments == 10

Pt(x, y) == [x |-> x, y |-> y]

Origin == Pt(Zero, Zero)

flattenCubicBezier(p0, p1, p2, p3, segments) ==
    LET Sample(i) ==
            LET t    == FDiv(FInt(i), FInt(segments))
                invT == FSub(FInt(1), t)
                At(a, b, c, d) ==
                    FAdd(FAdd(FAdd(FMul(FMul(FMul(invT, invT), invT), a),
                                   FMul(FMul(FMul(FMul(FInt(3), invT), invT), t), b)),
                              FMul(FMul(FMul(FMul(FInt(3), invT), t), t), c)),
                         FMul(FMul(FMul(t, t), t), d))
            IN  Pt(At(p0.x, p1.x, p2.x, p3.x), At(p0.y, p1.y, p2.y, p3.y))
    IN  [i \in 1..segments |-> Sample(i)]

flattenQuadraticBezier(p0, p1, p2, segments) ==
    LET Sample(i) ==
            LET t    == FDiv(FInt(i), FInt(segments))
                invT == FSub(FInt(1), t)
                At(a, b, c) ==
                    FAdd(FAdd(FMul(FMul(invT, invT), a),
                              FMul(FMul(FMul(FInt(2), invT), t), b)),
                         FMul(FMul(t, t), c))
            IN  Pt(At(p0.x, p1.x, p2.x), At(p0.y, p1.y, p2.y))
    IN  [i \in 1..segments |-> Sample(i)]

\* A point of the document in Clipper's coordinates: { X: x * SCALE, Y: y * SCALE }.
Scaled(p) == The({ [X |-> FMul(q.x, FInt(SCALE)), Y |-> FMul(q.y, FInt(SCALE))] : q \in {p} })

ScaledAll(points) == [i \in 1..Len(points) |-> Scaled(points[i])]

\* One step of commands.forEach: st is <<currentPos, subPaths, currentSubPath>>.
ApplyCommand(st, cmd) ==
    LET currentPos     == st[1]
        subPaths       == st[2]
        currentSubPath == st[3]
    IN  IF cmd.code = "M"
        THEN <<Pt(cmd.x, cmd.y),
               IF Len(currentSubPath) > 0 THEN Append(subPaths, currentSubPath) ELSE subPaths,
               <<Scaled(Pt(cmd.x, cmd.y))>> >>
        ELSE IF cmd.code \in {"L", "H", "V"}
        THEN LET target == Pt(IF cmd.code \in {"L", "H"} THEN cmd.x ELSE currentPos.x,
                              IF cmd.code \in {"L", "V"} THEN cmd.y ELSE currentPos.y)
             IN  <<target, subPaths, Append(currentSubPath, Scaled(target))>>
        ELSE IF cmd.code = "C"
        THEN <<Pt(cmd.x, cmd.y), subPaths,
               currentSubPath \o ScaledAll(flattenCubicBezier(currentPos, Pt(cmd.x1, cmd.y1),
                                   Pt(cmd.x2, cmd.y2), Pt(cmd.x, cmd.y), CubicSegments))>>
        ELSE IF cmd.code = "Q"
        THEN <<Pt(cmd.x, cmd.y), subPaths,
               currentSubPath \o ScaledAll(flattenQuadraticBezier(currentPos, Pt(cmd.x1, cmd.y1),
                                   Pt(cmd.x, cmd.y), QuadSegments))>>
        ELSE <<Pt(cmd.x, cmd.y), subPaths, Append(currentSubPath, Scaled(Pt(cmd.x, cmd.y)))>>

RECURSIVE ApplyCommands(_, _, _)
ApplyCommands(st, commands, i) ==
    IF i > Len(commands) THEN st
    ELSE The({ ApplyCommands(next, commands, i + 1) : next \in {ApplyCommand(st, commands[i])} })

\* The subPaths of one path element, the last open subpath included.
SubPathsOf(commands) ==
    The({ IF Len(st[3]) > 0 THEN Append(st[2], st[3]) ELSE st[2] :
          st \in {ApplyCommands(<<Origin, <<>>, <<>>>>, commands, 1)} })

(***************************************************************************)
(* The offset stage.  ClipperOffset is an external primitive: the model    *)
(* records what it is handed and lets Execute return any of a few lists    *)
(* of integer polygons, the empty list among them.                         *)
(***************************************************************************)
\* const offset = (params.toolDiameter / 2.0) * SCALE
OffsetDistance(params) == FMul(FDiv(params.toolDiameter, FInt(2)), FInt(SCALE))

\* The delta with the two signs exchanged (a variant of OffsetDelta).
OffsetDeltaSwapped(params) ==
    IF params.cutMode = "outside" THEN Neg(OffsetDistance(params)) ELSE OffsetDistance(params)

\* const delta = params.cutMode === 'outside' ? offset : -offset
OffsetDelta(params) ==
    IF params.cutMode = "outside" THEN OffsetDistance(params) ELSE Neg(OffsetDistance(params))

\* One co.AddPath(subjPath, jtRound, etClosedPolygon) per subpath.
AddedPaths(subPaths) ==
    [i \in 1..Len(subPaths) |->
        [path |-> subPaths[i], joinType |-> "jtRound", endType |-> "etClosedPolygon"]]

\* The ClipperOffset built for one path element and the delta it is executed with.
OffsetCall(subPaths, params) == [added |-> AddedPaths(subPaths), delta |-> OffsetDelta(params)]

IntPoint(X, Y) == [X |-> FInt(X), Y |-> FInt(Y)]

OffsetResults ==
    { <<>>,
      << <<IntPoint(1500, 1500), IntPoint(8500, 1500), IntPoint(8500, 8500), IntPoint(1500, 8500)>> >>,
      << <<IntPoint(500, 500), IntPoint(500, 2500), IntPoint(2500, 500)>>,
         <<IntPoint(4000, 4000), IntPoint(6000, 4000), IntPoint(4000, 6000)>> >> }

(***************************************************************************)
(* Path ordering.                                                          *)
(***************************************************************************)
RECURSIVE AreaSum(_, _, _, _)
\* for (i = 0, j = cnt - 1; i < cnt; ++i) { a += (poly[j].X + poly[i].X) * (poly[j].Y - poly[i].Y); j = i }
AreaSum(poly, i, j, a) ==
    IF i > Len(poly) THEN a
    ELSE AreaSum(poly, i + 1, i,
                 FAdd(a, FMul(FAdd(poly[j].X, poly[i].X), FSub(poly[j].Y, poly[i].Y))))

\* ClipperLib.Clipper.Area: the signed shoelace area, 0 below three points.
Area(poly) ==
    IF Len(poly) < 3 THEN Zero
    ELSE FMul(Neg(AreaSum(poly, 1, Len(poly), Zero)), <<1, -1>>)

\* The comparison on the signed areas (a variant of CompareArea).
CompareSignedArea(a, b) == FSub(Area(a), Area(b))

\* The comparator of the sort: areaA - areaB.
CompareArea(a, b) == FSub(FAbs(Area(a)), FAbs(Area(b)))

RECURSIVE InsertByArea(_, _)
\* x put behind every element that does not compare greater than it.
InsertByArea(sorted, x) ==
    IF Len(sorted) = 0 THEN <<x>>
    ELSE IF CompareArea(sorted[Len(sorted)], x)[1] > 0
         THEN Append(InsertByArea(SubSeq(sorted, 1, Len(sorted) - 1), x), sorted[Len(sorted)])
         ELSE Append(sorted, x)

RECURSIVE SortByArea(_)
\* Array.prototype.sort with CompareArea: a stable sort.
SortByArea(polys) ==
    IF Len(polys) = 0 THEN <<>>
    ELSE InsertByArea(SortByArea(SubSeq(polys, 1, Len(polys) - 1)), polys[Len(polys)])

\* if (params.pathOrdering === 'inside-out') allFinalPaths.sort(...)
OrderedPaths(polys, params) ==
    IF params.pathOrdering = "inside-out" THEN SortByArea(polys) ELSE polys

(***************************************************************************)
(* Depth planning and emission.  A program line is a record: cmd is the    *)
(* G-code word with the axis words the line carries, x, y and z are the    *)
(* toFixed(3) texts as counts of thousandths, n is a number printed by a   *)
(* template literal (safeZ, a rate, the spindle speed), note the comment.  *)
(***************************************************************************)
Line(cmd, x, y, z, n, note) ==
    [cmd |-> cmd, x |-> x, y |-> y, z |-> z, n |-> n, note |-> note]

Segment(p1, p2, type) == [p1 |-> p1, p2 |-> p2, type |-> type]

\* const gcodeLines: string[] = [ ... ]
Header(params) ==
    << Line(";", 0, 0, 0, Zero, "G-Code wygenerowany z SVG"),
       Line("G21", 0, 0, 0, Zero, "Jednostki w mm"),
       Line("G90", 0, 0, 0, Zero, "Pozycjonowanie absolutne"),
       Line("M3 S", 0, 0, 0, params.spindleSpeed, "Start wrzeciona"),
       Line("G0 Z", 0, 0, 0, params.safeZ, "Powrot na bezpieczne Z"),
       Line("F", 0, 0, 0, params.feedRate, "Ustaw posuw") >>

\* { x: path[i].X / SCALE, y: path[i].Y / SCALE }
Unscaled(P) == The({ Pt(FDiv(Q.X, FInt(SCALE)), FDiv(Q.Y, FInt(SCALE))) : Q \in {P} })

\* The pass count with a floor of one pass (a variant of NumPasses).
NumPassesAtLeastOne(params) ==
    IF Ceil(FDiv(params.depthOfCut, params.passDepth)) < 1 THEN 1
    ELSE Ceil(FDiv(params.depthOfCut, params.passDepth))

\* const numPasses = Math.ceil(params.depthOfCut / params.passDepth)
NumPasses(params) == Ceil(FDiv(params.depthOfCut, params.passDepth))

\* const currentDepth = Math.min((passIndex + 1) * params.passDepth, params.depthOfCut)
CurrentDepth(params, passIndex) ==
    FMin(FMul(FInt(passIndex + 1), params.passDepth), params.depthOfCut)

isFirstPass(passIndex) == passIndex = 0

\* A retract after every pass (a variant of isLastPass).
isAnyPass(params, passIndex) == passIndex <= NumPasses(params) - 1

isLastPass(params, passIndex) == passIndex = NumPasses(params) - 1

\* gcodeLines.push(`; Pass ${passIndex + 1}/${numPasses} - Depth: ${currentDepth.toFixed(3)}mm`)
PassComment(params, passIndex) ==
    Line(";", passIndex + 1, NumPasses(params),
         ToFixed3(CurrentDepth(params, passIndex)), Zero, "Pass")

(***************************************************************************)
(* The output of a run so far is out = <<gcodeLines, visualizationSegments,*)
(* headPos>>; each step of the pass loop maps it to the next.              *)
(***************************************************************************)
Emit(out, lines, segments, head) == <<out[1] \o lines, out[2] \o segments, head>>

EmitLine(out, line) == <<Append(out[1], line), out[2], out[3]>>

\* Move to start position (only for first pass, otherwise already there).
MoveToStart(out, path, params, passIndex) ==
    IF isFirstPass(passIndex)
    THEN The({ Emit(o, << Line("G0 XY", ToFixed3(p0.x), ToFixed3(p0.y), 0, Zero, ""),
                          Line("G0 Z", 0, 0, 0, params.safeZ, "Najazd") >>,
                    << Segment(o[3], p0, "G0") >>, p0) :
               o \in {out}, p0 \in {Unscaled(path[1])} })
    ELSE out

\* The vertical plunge recorded as a segment that stays in place (a variant of
\* VerticalPlunge).
VerticalPlungeWithSegment(out, params, plungeDepth, note) ==
    Emit(out, << Line("G1 Z F", 0, 0, -ToFixed3(plungeDepth), params.plungeRate, note) >>,
         << Segment(out[3], out[3], "G1") >>, out[3])

\* gcodeLines.push(`G1 Z-${plungeDepth.toFixed(3)} F${params.plungeRate} ; ...`)
VerticalPlunge(out, params, plungeDepth, note) ==
    EmitLine(out, Line("G1 Z F", 0, 0, -ToFixed3(plungeDepth), params.plungeRate, note))

\* const dist = Math.sqrt(dx * dx + dy * dy), dx = p1.x - p0.x, dy = p1.y - p0.y
FirstEdgeLength(p0, p1) ==
    The({ FSqrt(FAdd(FMul(dx, dx), FMul(dy, dy))) :
          dx \in {FSub(p1.x, p0.x)}, dy \in {FSub(p1.y, p0.y)} })

\* { x: p0.x + perpX * spiralRadius, y: p0.y + perpY * spiralRadius },
\* perpX = -dy / dist, perpY = dx / dist, spiralRadius = toolDiameter * 0.75
SpiralArcPoint(p0, p1, dist, toolDiameter) ==
    The({ Pt(FAdd(p0.x, FMul(FDiv(Neg(dy), dist), spiralRadius)),
             FAdd(p0.y, FMul(FDiv(dx, dist), spiralRadius))) :
          dx \in {FSub(p1.x, p0.x)}, dy \in {FSub(p1.y, p0.y)},
          spiralRadius \in {FMul(toolDiameter, <<3, -2>>)} })

\* The two moves of the spiral plunge through the point arc.
SpiralPlunge(out, params, plungeDepth, p0, arc) ==
    Emit(out,
         << Line("G1 XYZ F", ToFixed3(arc.x), ToFixed3(arc.y),
                 ToFixed3(FDiv(Neg(plungeDepth), FInt(2))),
                 params.plungeRate, "Wjazd spiralny - czesc 1"),
            Line("G1 XYZ F", ToFixed3(p0.x), ToFixed3(p0.y), -ToFixed3(plungeDepth),
                 params.plungeRate, "Wjazd spiralny - czesc 2") >>,
         << Segment(out[3], arc, "G1"), Segment(arc, p0, "G1") >>,
         p0)

\* The spiral taken whatever the length of the first edge (a variant of
\* SpiralOrFallback).
SpiralAlways(out, params, plungeDepth, p0, p1) ==
    The({ SpiralPlunge(out, params, plungeDepth, p0, arc) :
          arc \in {SpiralArcPoint(p0, p1, FirstEdgeLength(p0, p1), params.toolDiameter)} })

\* The spiral branch for a path of more than one point.
SpiralOrFallback(out, params, plungeDepth, p0, p1) ==
    The({ IF FLt(Dec(1), dist)
          THEN The({ SpiralPlunge(out, params, plungeDepth, p0, arc) :
                     arc \in {SpiralArcPoint(p0, p1, dist, params.toolDiameter)} })
          ELSE VerticalPlunge(out, params, plungeDepth, "Wjazd pionowy (fallback)") :
          dist \in {FirstEdgeLength(p0, p1)} })

\* Plunge to current depth.
Plunge(out, path, params, passIndex) ==
    The({ IF params.plungeMode = "vertical" \/ ~isFirstPass(passIndex)
          THEN VerticalPlunge(o, params, plungeDepth,
                   IF isFirstPass(passIndex) THEN "Wjazd pionowy"
                   ELSE "Wjazd do kolejnej glebokosci")
          ELSE IF Len(path) > 1
          THEN The({ SpiralOrFallback(o, params, plungeDepth, p0, p1) :
                     p0 \in {Unscaled(path[1])}, p1 \in {Unscaled(path[2])} })
          ELSE VerticalPlunge(o, params, plungeDepth, "Wjazd pionowy (fallback)") :
          o \in {out}, plungeDepth \in {CurrentDepth(params, passIndex)} })

\* The feed rate left as the plunge set it (a variant of RestoreFeed).
RestoreFeedSkipped(out, params) == out

\* gcodeLines.push(`F${params.feedRate}`)
RestoreFeed(out, params) == EmitLine(out, Line("F", 0, 0, 0, params.feedRate, ""))

\* The closing move made for every path (a variant of CutTargets).
CutTargetsClosed(path) ==
    [i \in 1..Len(path) |-> IF i < Len(path) THEN Unscaled(path[i + 1]) ELSE Unscaled(path[1])]

\* The points the cut of one pass visits: path[1..] in order, then, for a
\* path of more than two points, path[0] again (close loop).
CutTargets(path) ==
    [i \in 1..(Len(path) - 1 + (IF Len(path) > 2 THEN 1 ELSE 0)) |->
        IF i < Len(path) THEN Unscaled(path[i + 1]) ELSE Unscaled(path[1])]

\* The first cut segment drawn from the first point of the path, wherever the
\* head is (a variant of Cut).
CutFromStart(out, path) ==
    The({ Emit(o,
               [i \in 1..Len(targets) |->
                   Line("G1 XY", ToFixed3(targets[i].x), ToFixed3(targets[i].y), 0, Zero, "")],
               [i \in 1..Len(targets) |->
                   Segment(IF i = 1 THEN Unscaled(path[1]) ELSE targets[i - 1], targets[i], "G1")],
               IF Len(targets) = 0 THEN o[3] ELSE targets[Len(targets)]) :
          o \in {out}, targets \in {CutTargets(path)} })

\* Cut the path at current depth, and close the loop.
Cut(out, path) ==
    The({ Emit(o,
               [i \in 1..Len(targets) |->
                   Line("G1 XY", ToFixed3(targets[i].x), ToFixed3(targets[i].y), 0, Zero, "")],
               [i \in 1..Len(targets) |->
                   Segment(IF i = 1 THEN o[3] ELSE targets[i - 1], targets[i], "G1")],
               IF Len(targets) = 0 THEN o[3] ELSE targets[Len(targets)]) :
          o \in {out}, targets \in {CutTargets(path)} })

\* No retract after the last pass (a variant of AfterPass).
AfterPassNoRetract(out, params, passIndex) ==
    EmitLine(out, Line(";", 0, 0, 0, Zero, "Preparing for next pass..."))

\* Retract after last pass, or prepare for next pass.
AfterPass(out, params, passIndex) ==
    EmitLine(out, IF isLastPass(params, passIndex)
                  THEN Line("G0 Z", 0, 0, 0, params.safeZ, "Wyjazd")
                  ELSE Line(";", 0, 0, 0, Zero, "Preparing for next pass..."))

\* One iteration of the multi-pass cutting loop.
Pass(out, path, params, passIndex) ==
    AfterPass(
        Cut(RestoreFeed(
                Plunge(MoveToStart(EmitLine(out, PassComment(params, passIndex)),
                                   path, params, passIndex),
                       path, params, passIndex),
                params),
            path),
        params, passIndex)

\* The return to the origin ahead of the spindle stop (a variant of Footer).
FooterReturnFirst ==
    << Line("G0 XY", 0, 0, 0, Zero, "Powrot do bazy"),
       Line("M5", 0, 0, 0, Zero, "Zatrzymaj wrzeciono"),
       Line("M30", 0, 0, 0, Zero, "Koniec programu") >>

\* Return to home.
Footer ==
    << Line("M5", 0, 0, 0, Zero, "Zatrzymaj wrzeciono"),
       Line("G0 XY", 0, 0, 0, Zero, "Powrot do bazy"),
       Line("M30", 0, 0, 0, Zero, "Koniec programu") >>

(***************************************************************************)
(* The inputs of a run.                                                    *)
(***************************************************************************)
\* The most passes a run of the model makes per polyline.
MaxPasses == 4

Documents ==
    { \* no path element
      <<>>,
      \* the closed square 0,0 - 10,0 - 10,10 - 0,10
      << <<MoveTo(0, 0), LineTo(10000, 0), LineTo(10000, 10000), LineTo(0, 10000),
           ClosePath(0, 0)>> >>,
      \* an open line of two points
      << <<MoveTo(0, 0), LineTo(10000, 0)>> >>,
      \* horizontal and vertical line-to: three points
      << <<MoveTo(1000, 1000), HorizTo(5000, 1000), VertTo(5000, 4000)>> >>,
      \* a compound path of two closed subpaths, then a path element with an
      \* open line of two points and a lone move-to
      << <<MoveTo(0, 0), LineTo(4000, 0), LineTo(4000, 4000), ClosePath(0, 0),
           MoveTo(1000, 1000), LineTo(2000, 1000), LineTo(2000, 2000), ClosePath(1000, 1000)>>,
         <<MoveTo(6000, 6000), LineTo(7000, 7000), MoveTo(9000, 9000)>> >>,
      \* a large contour first, then two triangles of equal area and opposite
      \* orientation
      << <<MoveTo(0, 0), LineTo(60, 0), LineTo(60, 60), LineTo(0, 60),
           MoveTo(10, 10), LineTo(30, 10), LineTo(10, 30),
           MoveTo(50, 50), LineTo(50, 30), LineTo(30, 50)>> >>,
      \* a single point, a first edge of length 0.0005 and an open line, then
      \* an empty path-data string
      << <<MoveTo(5000, 5000),
           FineMoveTo(0, 0), FineLineTo(500, 0), LineTo(3000, 3000),
           MoveTo(1000, 1000), LineTo(2000, 1000)>>,
         <<>> >>,
      \* curves and an arc command, then coordinates with six decimals
      << <<MoveTo(0, 0), QuadTo(1000, 2000, 2000, 0),
           MoveTo(0, 0), CubicTo(0, 1000, 2000, 1000, 2000, 0), ArcTo(3000, 1000)>>,
         <<FineMoveTo(1152, 2001), FineLineTo(3001152, 1091), FineLineTo(1203, 4000899)>> >> }

\* A token of a path-data string that parsePathData cannot read.
BadToken == Cmd("?", Zero, Zero, Zero, Zero, Zero, Zero)

\* parsePathData throws on the path-data string.
IsMalformed(commands) == \E i \in DOMAIN commands : commands[i].code = "?"

\* A well-formed path element first, then a path-data string that is malformed.
MalformedPathData ==
    << <<MoveTo(0, 0), LineTo(10000, 0), LineTo(10000, 10000)>>,
       <<MoveTo(1000, 1000), BadToken>> >>

\* The svgContent argument: markup that parse accepts, with the path-data
\* strings extractPaths collects from it, or markup on which parse throws.
SvgContents ==
    [wellFormed : {TRUE}, paths : Documents \cup {MalformedPathData}]
        \cup {[wellFormed |-> FALSE, paths |-> <<>>]}

DepthsOfCut == {Dec(0), Dec(63), Dec(2500), Dec(3000)}

PassDepths == {Dec(21), Dec(1000)}

ToolDiameters == {Dec(3000)}

CutModes == {"on-line", "inside", "outside"}

PlungeModes == {"vertical", "spiral"}

PathOrderings == {"natural", "inside-out"}

\* ToolParameters with passDepth > 0 and depthOfCut >= 0; the rates, the
\* spindle speed and safeZ are the defaults of the application.
ParamsSet ==
    { p \in [ spindleSpeed : {FInt(12000)}, feedRate : {FInt(800)}, plungeRate : {FInt(300)},
              depthOfCut : DepthsOfCut, passDepth : PassDepths, safeZ : {FInt(5)},
              toolDiameter : ToolDiameters, cutMode : CutModes, plungeMode : PlungeModes,
              pathOrdering : PathOrderings ] :
        NumPasses(p) <= MaxPasses }

\* ToolParameters the application can also hand over: a feed rate of 0, and a
\* plunge rate and a tool diameter that are not positive.
InvalidParams ==
    { [ spindleSpeed |-> FInt(12000), feedRate |-> Zero, plungeRate |-> FInt(300),
        depthOfCut |-> Dec(2500), passDepth |-> Dec(1000), safeZ |-> FInt(5),
        toolDiameter |-> Dec(3000), cutMode |-> "on-line", plungeMode |-> "vertical",
        pathOrdering |-> "natural" ],
      [ spindleSpeed |-> FInt(12000), feedRate |-> FInt(800), plungeRate |-> FInt(-300),
        depthOfCut |-> Dec(2500), passDepth |-> Dec(1000), safeZ |-> FInt(5),
        toolDiameter |-> Zero, cutMode |-> "on-line", plungeMode |-> "vertical",
        pathOrdering |-> "natural" ] }

(***************************************************************************)
(* The run of generateGCode as a state machine.                            *)
(***************************************************************************)
VARIABLES
    svgContent,             \* the svgContent argument of the run
    params,                 \* the GCodeParams of the run
    paths,                  \* the command list of every extracted path element
    pc,                     \* "start", "paths", "emit", "done" (returned) or "failed" (thrown)
    pathIdx,                \* paths.forEach: the next path element
    allFinalPaths,
    offsetCalls,            \* what ClipperOffset was handed, one entry per Execute
    offsetReturns,          \* history: what every Execute returned
    warnings,               \* the number of console.warn calls
    polyIdx,                \* allFinalPaths.forEach: the current polyline
    passIndex,
    gcodeLines,
    visualizationSegments,
    headPos,
    passLog,                \* history: per iteration of the pass loop, the polyline, the
                            \* pass index and the lines and segments it pushed
    finished                \* history: what every invocation so far was given and gave back

vars == <<svgContent, params, paths, pc, pathIdx, allFinalPaths, offsetCalls, offsetReturns,
          warnings, polyIdx, passIndex, gcodeLines, visualizationSegments, headPos, passLog,
          finished>>

\* The local variables of an invocation that has not run yet: nothing is kept
\* from one invocation to the next.
Entered(content, tool) ==
    /\ svgContent = content
    /\ params = tool
    /\ paths = <<>>
    /\ pc = "start"
    /\ pathIdx = 1
    /\ allFinalPaths = <<>>
    /\ offsetCalls = <<>>
    /\ offsetReturns = <<>>
    /\ warnings = 0
    /\ polyIdx = 1
    /\ passIndex = 0
    /\ gcodeLines = <<>>
    /\ visualizationSegments = <<>>
    /\ headPos = Origin
    /\ passLog = <<>>

Init ==
    /\ \E content \in SvgContents, tool \in ParamsSet \cup InvalidParams : Entered(content, tool)
    /\ finished = <<>>

\* What the caller gets when the invocation returns.
Returned(lines, segments) ==
    [svgContent |-> svgContent, params |-> params, offsetReturns |-> offsetReturns,
     outcome |-> "returned", gcode |-> lines, segments |-> segments]

\* What the caller gets when the invocation throws: the exception, and neither
\* program text nor segments.
Thrown ==
    [svgContent |-> svgContent, params |-> params, offsetReturns |-> offsetReturns,
     outcome |-> "thrown", gcode |-> <<>>, segments |-> <<>>]

\* parse and extractPaths, then the initial lines of the program.
ParseDocument ==
    /\ pc = "start"
    /\ svgContent.wellFormed
    /\ paths' = svgContent.paths
    /\ gcodeLines' = Header(params)
    /\ pc' = "paths"
    /\ UNCHANGED <<svgContent, params, pathIdx, allFinalPaths, offsetCalls, offsetReturns,
                   warnings, polyIdx, passIndex, visualizationSegments, headPos, passLog,
                   finished>>

\* parse throws on the markup: the exception leaves generateGCode.
DocumentError ==
    /\ pc = "start"
    /\ ~svgContent.wellFormed
    /\ pc' = "failed"
    /\ finished' = Append(finished, Thrown)
    /\ UNCHANGED <<svgContent, params, paths, pathIdx, allFinalPaths, offsetCalls,
                   offsetReturns, warnings, polyIdx, passIndex, gcodeLines,
                   visualizationSegments, headPos, passLog>>

\* The malformed path element left out and the run continued (a variant of
\* PathDataError).
PathDataSkipped ==
    /\ pc = "paths"
    /\ pathIdx <= Len(paths)
    /\ IsMalformed(paths[pathIdx])
    /\ pathIdx' = pathIdx + 1
    /\ UNCHANGED <<svgContent, params, paths, pc, allFinalPaths, offsetCalls, offsetReturns,
                   warnings, polyIdx, passIndex, gcodeLines, visualizationSegments, headPos,
                   passLog, finished>>

\* parsePathData throws on a path-data string: the exception leaves generateGCode.
PathDataError ==
    /\ pc = "paths"
    /\ pathIdx <= Len(paths)
    /\ IsMalformed(paths[pathIdx])
    /\ pc' = "failed"
    /\ finished' = Append(finished, Thrown)
    /\ UNCHANGED <<svgContent, params, paths, pathIdx, allFinalPaths, offsetCalls,
                   offsetReturns, warnings, polyIdx, passIndex, gcodeLines,
                   visualizationSegments, headPos, passLog>>

\* The path element cut on its own line when its offset is empty (a variant of
\* ProcessPath).
ProcessPathKeepingInput ==
    /\ pc = "paths"
    /\ pathIdx <= Len(paths)
    /\ ~IsMalformed(paths[pathIdx])
    /\ LET subPaths == SubPathsOf(paths[pathIdx])
       IN  IF params.cutMode = "on-line"
           THEN /\ allFinalPaths' = allFinalPaths \o subPaths
                /\ UNCHANGED <<offsetCalls, offsetReturns, warnings>>
           ELSE \E offsetPaths \in OffsetResults :
                    /\ offsetCalls' = Append(offsetCalls, OffsetCall(subPaths, params))
                    /\ offsetReturns' = Append(offsetReturns, offsetPaths)
                    /\ IF Len(offsetPaths) > 0
                       THEN /\ allFinalPaths' = allFinalPaths \o offsetPaths
                            /\ UNCHANGED warnings
                       ELSE /\ warnings' = warnings + 1
                            /\ allFinalPaths' = allFinalPaths \o subPaths
    /\ pathIdx' = pathIdx + 1
    /\ UNCHANGED <<svgContent, params, paths, pc, polyIdx, passIndex, gcodeLines,
                   visualizationSegments, headPos, passLog, finished>>

\* The body of paths.forEach for one path element.
ProcessPath ==
    /\ pc = "paths"
    /\ pathIdx <= Len(paths)
    /\ ~IsMalformed(paths[pathIdx])
    /\ LET subPaths == SubPathsOf(paths[pathIdx])
       IN  IF params.cutMode = "on-line"
           THEN /\ allFinalPaths' = allFinalPaths \o subPaths
                /\ UNCHANGED <<offsetCalls, offsetReturns, warnings>>
           ELSE \E offsetPaths \in OffsetResults :
                    /\ offsetCalls' = Append(offsetCalls, OffsetCall(subPaths, params))
                    /\ offsetReturns' = Append(offsetReturns, offsetPaths)
                    /\ IF Len(offsetPaths) > 0
                       THEN /\ allFinalPaths' = allFinalPaths \o offsetPaths
                            /\ UNCHANGED warnings
                       ELSE /\ warnings' = warnings + 1
                            /\ UNCHANGED allFinalPaths
    /\ pathIdx' = pathIdx + 1
    /\ UNCHANGED <<svgContent, params, paths, pc, polyIdx, passIndex, gcodeLines,
                   visualizationSegments, headPos, passLog, finished>>

\* Sort paths if requested.
OrderPaths ==
    /\ pc = "paths"
    /\ pathIdx > Len(paths)
    /\ allFinalPaths' = OrderedPaths(allFinalPaths, params)
    /\ pc' = "emit"
    /\ UNCHANGED <<svgContent, params, paths, pathIdx, offsetCalls, offsetReturns, warnings,
                   polyIdx, passIndex, gcodeLines, visualizationSegments, headPos, passLog,
                   finished>>

\* A polyline that is empty, or whose pass loop makes no iteration.
SkipPolyline ==
    /\ pc = "emit"
    /\ polyIdx <= Len(allFinalPaths)
    /\ Len(allFinalPaths[polyIdx]) = 0 \/ ~(passIndex < NumPasses(params))
    /\ polyIdx' = polyIdx + 1
    /\ passIndex' = 0
    /\ UNCHANGED <<svgContent, params, paths, pc, pathIdx, allFinalPaths, offsetCalls,
                   offsetReturns, warnings, gcodeLines, visualizationSegments, headPos,
                   passLog, finished>>

\* One iteration of the pass loop of the current polyline.
CutPass ==
    /\ pc = "emit"
    /\ polyIdx <= Len(allFinalPaths)
    /\ Len(allFinalPaths[polyIdx]) # 0
    /\ passIndex < NumPasses(params)
    /\ \E out \in {Pass(<<gcodeLines, visualizationSegments, headPos>>,
                         allFinalPaths[polyIdx], params, passIndex)} :
           /\ gcodeLines' = out[1]
           /\ visualizationSegments' = out[2]
           /\ headPos' = out[3]
           /\ passLog' = Append(passLog,
                  [poly |-> polyIdx, passIndex |-> passIndex,
                   firstLine |-> Len(gcodeLines) + 1, lastLine |-> Len(out[1]),
                   firstSegment |-> Len(visualizationSegments) + 1,
                   lastSegment |-> Len(out[2])])
    /\ passIndex' = passIndex + 1
    /\ UNCHANGED <<svgContent, params, paths, pc, pathIdx, allFinalPaths, offsetCalls,
                   offsetReturns, warnings, polyIdx, finished>>

\* Return to home, and the return of the program text and the segments.
ReturnHome ==
    /\ pc = "emit"
    /\ polyIdx > Len(allFinalPaths)
    /\ visualizationSegments' = Append(visualizationSegments, Segment(headPos, Origin, "G0"))
    /\ gcodeLines' = gcodeLines \o Footer
    /\ pc' = "done"
    /\ finished' = Append(finished,
           Returned(gcodeLines \o Footer,
                    Append(visualizationSegments, Segment(headPos, Origin, "G0"))))
    /\ UNCHANGED <<svgContent, params, paths, pathIdx, allFinalPaths, offsetCalls,
                   offsetReturns, warnings, polyIdx, passIndex, headPos, passLog>>

Next ==
    \/ ParseDocument
    \/ DocumentError
    \/ PathDataError
    \/ ProcessPath
    \/ OrderPaths
    \/ SkipPolyline
    \/ CutPass
    \/ ReturnHome

Spec == Init /\ [][Next]_vars

(***************************************************************************)
(* Several invocations, one after the other, as the application makes them *)
(* (handleConvert, handlePreview).                                         *)
(***************************************************************************)
\* The most invocations a behaviour of SpecRuns makes.
MaxRuns == 3

\* The arguments of the invocations of SpecRuns.
RunContents ==
    { [wellFormed |-> TRUE, paths |-> << <<MoveTo(0, 0), LineTo(10000, 0)>> >>],
      [wellFormed |-> TRUE, paths |-> MalformedPathData],
      [wellFormed |-> FALSE, paths |-> <<>>] }

RunParams ==
    { [ spindleSpeed |-> FInt(12000), feedRate |-> FInt(800), plungeRate |-> FInt(300),
        depthOfCut |-> Dec(1000), passDepth |-> Dec(1000), safeZ |-> FInt(5),
        toolDiameter |-> Dec(3000), cutMode |-> "on-line", plungeMode |-> "spiral",
        pathOrdering |-> "natural" ],
      [ spindleSpeed |-> FInt(12000), feedRate |-> FInt(800), plungeRate |-> FInt(300),
        depthOfCut |-> Dec(1000), passDepth |-> Dec(1000), safeZ |-> FInt(5),
        toolDiameter |-> Dec(3000), cutMode |-> "inside", plungeMode |-> "vertical",
        pathOrdering |-> "inside-out" ] }

InitRuns ==
    /\ \E content \in RunContents, tool \in RunParams : Entered(content, tool)
    /\ finished = <<>>

\* The next invocation with the head position of the one before (a variant of
\* Invoke).
InvokeKeepingHead ==
    /\ pc \in {"done", "failed"}
    /\ Len(finished) < MaxRuns
    /\ svgContent' \in RunContents
    /\ params' \in RunParams
    /\ paths' = <<>>
    /\ pc' = "start"
    /\ pathIdx' = 1
    /\ allFinalPaths' = <<>>
    /\ offsetCalls' = <<>>
    /\ offsetReturns' = <<>>
    /\ warnings' = 0
    /\ polyIdx' = 1
    /\ passIndex' = 0
    /\ gcodeLines' = <<>>
    /\ visualizationSegments' = <<>>
    /\ passLog' = <<>>
    /\ UNCHANGED <<headPos, finished>>

\* The application calls generateGCode again: every variable of the run is a
\* local of the function and is created anew.
Invoke ==
    /\ pc \in {"done", "failed"}
    /\ Len(finished) < MaxRuns
    /\ svgContent' \in RunContents
    /\ params' \in RunParams
    /\ paths' = <<>>
    /\ pc' = "start"
    /\ pathIdx' = 1
    /\ allFinalPaths' = <<>>
    /\ offsetCalls' = <<>>
    /\ offsetReturns' = <<>>
    /\ warnings' = 0
    /\ polyIdx' = 1
    /\ passIndex' = 0
    /\ gcodeLines' = <<>>
    /\ visualizationSegments' = <<>>
    /\ headPos' = Origin
    /\ passLog' = <<>>
    /\ UNCHANGED finished

NextRuns == Next \/ Invoke

SpecRuns == InitRuns /\ [][NextRuns]_vars

(***************************************************************************)
(* Reading the output.                                                     *)
(***************************************************************************)
\* The polyline an iteration of the pass loop worked on.
PathOf(entry) == allFinalPaths[entry.poly]

\* The indices of the program lines an iteration of the pass loop pushed.
LinesOf(entry) == entry.firstLine..entry.lastLine

\* The entries of passLog for polyline j, in order of execution.
PassesOf(j) == {i \in DOMAIN passLog : passLog[i].poly = j}

\* The polylines whose pass loop has run to its end.
Finished(j) == j < polyIdx \/ pc = "done"

\* The lines of an iteration that are lateral cut moves (G1 with X and Y only).
CutLinesOf(entry) == {i \in LinesOf(entry) : gcodeLines[i].cmd = "G1 XY"}

\* The lines of an iteration that plunge (G1 with a Z word).
PlungeLinesOf(entry) == {i \in LinesOf(entry) : gcodeLines[i].cmd \in {"G1 Z F", "G1 XYZ F"}}

(***************************************************************************)
(* C1.  As claimed: with depthOfCut = 0 and passDepth > 0 every non-empty  *)
(* polyline gets exactly one pass, at depth 0 (one plunge to Z-0.000, one  *)
(* traversal, one retract).                                                *)
(***************************************************************************)
C1_OnePassAtDepthZero ==
    (pc = "done" /\ params.depthOfCut = Zero) =>
        \A j \in DOMAIN allFinalPaths :
            Len(allFinalPaths[j]) > 0 =>
                /\ Cardinality(PassesOf(j)) = 1
                /\ \A i \in PassesOf(j) :
                       /\ Cardinality(PlungeLinesOf(passLog[i])) = 1
                       /\ \A l \in PlungeLinesOf(passLog[i]) : gcodeLines[l].z = 0
                       /\ gcodeLines[passLog[i].lastLine].note = "Wyjazd"

(***************************************************************************)
(* C1, amended.  With depthOfCut = 0 and passDepth > 0 no pass is planned: *)
(* no iteration of the pass loop runs for any polyline, and the finished   *)
(* program is the header followed by the footer, with the single segment   *)
(* of the return to the origin.                                            *)
(***************************************************************************)
C1_NoPassAtDepthZero ==
    params.depthOfCut = Zero =>
        /\ NumPasses(params) = 0
        /\ passLog = <<>>
        /\ pc = "done" =>
               /\ gcodeLines = Header(params) \o Footer
               /\ visualizationSegments = <<Segment(Origin, Origin, "G0")>>

C1_Witness ==
    /\ pc = "done"
    /\ params.depthOfCut = Zero
    /\ \E j \in DOMAIN allFinalPaths : Len(allFinalPaths[j]) > 2

(***************************************************************************)
(* C2.  The number of passes executed per polyline is numPasses =          *)
(* ceil(depthOfCut / passDepth), and, in the arithmetic of the program,    *)
(* (numPasses - 1) * passDepth < depthOfCut <= numPasses * passDepth.      *)
(***************************************************************************)
C2_PassCountBounds ==
    /\ \A j \in DOMAIN allFinalPaths :
           (Finished(j) /\ Len(allFinalPaths[j]) > 0) =>
               Cardinality(PassesOf(j)) = NumPasses(params)
    /\ \A n \in {NumPasses(params)} :
           /\ FLt(FMul(FInt(n - 1), params.passDepth), params.depthOfCut)
           /\ ~FLt(FMul(FInt(n), params.passDepth), params.depthOfCut)

(***************************************************************************)
(* C3.  The plunge of pass k of every polyline goes to the depth           *)
(* min((k+1) * passDepth, depthOfCut); the depths of the passes of a       *)
(* polyline are strictly increasing, never exceed depthOfCut, and the      *)
(* last one is depthOfCut.                                                 *)
(***************************************************************************)
C3_PassDepths ==
    \A i \in DOMAIN passLog :
        \A k \in {passLog[i].passIndex}, depth \in {CurrentDepth(params, passLog[i].passIndex)} :
            /\ depth = FMin(FMul(FInt(k + 1), params.passDepth), params.depthOfCut)
            /\ \E l \in PlungeLinesOf(passLog[i]) : gcodeLines[l].z = -ToFixed3(depth)
            /\ \A l \in PlungeLinesOf(passLog[i]) : -gcodeLines[l].z <= ToFixed3(depth)
            /\ ~FLt(params.depthOfCut, depth)
            /\ k > 0 => FLt(CurrentDepth(params, k - 1), depth)
            /\ gcodeLines[passLog[i].lastLine].note = "Wyjazd" => depth = params.depthOfCut

(***************************************************************************)
(* C4.  In every pass of every polyline the number of lateral cut          *)
(* instructions is the number of points of the polyline minus one, plus    *)
(* one closing instruction exactly when the polyline has more than two     *)
(* points.                                                                 *)
(***************************************************************************)
C4_CutCount ==
    \A i \in DOMAIN passLog :
        \A n \in {Len(PathOf(passLog[i]))} :
            /\ Cardinality(CutLinesOf(passLog[i])) = (n - 1) + (IF n > 2 THEN 1 ELSE 0)
            /\ n > 2 <=>
                   \E p0 \in {Unscaled(PathOf(passLog[i])[1])} :
                       /\ Cardinality(CutLinesOf(passLog[i])) = n
                       /\ \A l \in CutLinesOf(passLog[i]) :
                              (\A m \in CutLinesOf(passLog[i]) : m <= l) =>
                                  /\ gcodeLines[l].x = ToFixed3(p0.x)
                                  /\ gcodeLines[l].y = ToFixed3(p0.y)

C4_Witness ==
    /\ \E i \in DOMAIN passLog : Len(PathOf(passLog[i])) = 2 /\ passLog[i].passIndex > 0
    /\ \E i \in DOMAIN passLog : Len(PathOf(passLog[i])) = 1
    /\ \E i \in DOMAIN passLog : Len(PathOf(passLog[i])) > 2 /\ passLog[i].passIndex > 0

\* The segments of the lateral cut moves of an iteration: the last ones it pushed,
\* one per cut line.
FirstCutSegment(entry) == entry.lastSegment - Cardinality(CutLinesOf(entry)) + 1

(***************************************************************************)
(* C5.  Every pass of a polyline of at least two points starts at the      *)
(* first point and traces the whole polyline: the tool is over the first   *)
(* point at the plunge, and the cut moves run from the first point through *)
(* every point to the last one, on later passes as on the first and for    *)
(* polylines of exactly two points too.                                    *)
(***************************************************************************)
C5_FullRetrace ==
    \A i \in DOMAIN passLog :
        \A path \in {PathOf(passLog[i])}, first \in {FirstCutSegment(passLog[i])} :
            Len(path) >= 2 =>
                /\ Cardinality(CutLinesOf(passLog[i])) >= Len(path) - 1
                /\ visualizationSegments[first].p1 = Unscaled(path[1])
                /\ \A t \in 1..(Len(path) - 1) :
                       /\ visualizationSegments[first + t - 1].p2 = Unscaled(path[t + 1])
                       /\ visualizationSegments[first + t - 1].p1 = Unscaled(path[t])

\* The lines of an iteration that are rapid moves.
RapidLinesOf(entry) == {i \in LinesOf(entry) : gcodeLines[i].cmd \in {"G0 XY", "G0 Z"}}

\* The iteration makes the last pass of its polyline.
LastPassOf(entry) == entry.passIndex = NumPasses(params) - 1

(***************************************************************************)
(* C6.  The instructions of a polyline come in the order: rapid XY to the  *)
(* first point, rapid Z to safeZ, then per pass the plunge followed by the *)
(* cut moves, then one retract to safeZ after the cut moves of the last    *)
(* pass.  No rapid move and no retract lies between the first plunge and   *)
(* the end of the cut moves of the last pass, and the passes of a polyline *)
(* follow one another with nothing in between.                             *)
(***************************************************************************)
C6_InstructionOrder ==
    (pc = "done") =>
    \A i \in DOMAIN passLog :
        \A e \in {passLog[i]}, p0 \in {Unscaled(PathOf(passLog[i])[1])} :
            /\ \A l \in LinesOf(e) :
                   gcodeLines[l].cmd \in {";", "G0 XY", "G0 Z", "G1 Z F", "G1 XYZ F", "F", "G1 XY"}
            \* the approach, on the first pass only
            /\ RapidLinesOf(e) =
                   (IF e.passIndex = 0 THEN {e.firstLine + 1, e.firstLine + 2} ELSE {})
                       \cup (IF LastPassOf(e) THEN {e.lastLine} ELSE {})
            /\ e.passIndex = 0 =>
                   /\ gcodeLines[e.firstLine + 1] =
                          Line("G0 XY", ToFixed3(p0.x), ToFixed3(p0.y), 0, Zero, "")
                   /\ gcodeLines[e.firstLine + 2].cmd = "G0 Z"
                   /\ gcodeLines[e.firstLine + 2].n = params.safeZ
            \* plunge, then the cut moves
            /\ PlungeLinesOf(e) # {}
            /\ \A pl \in PlungeLinesOf(e) :
                   /\ \A r \in RapidLinesOf(e) : r < pl \/ r = e.lastLine
                   /\ \A c \in CutLinesOf(e) : pl < c
            \* the retract, after the cut moves of the last pass only
            /\ LastPassOf(e) =>
                   /\ gcodeLines[e.lastLine].cmd = "G0 Z"
                   /\ gcodeLines[e.lastLine].n = params.safeZ
                   /\ \A c \in CutLinesOf(e) \cup PlungeLinesOf(e) : c < e.lastLine
            \* the passes of a polyline are consecutive
            /\ e.passIndex > 0 =>
                   /\ passLog[i - 1].poly = e.poly
                   /\ passLog[i - 1].passIndex = e.passIndex - 1
                   /\ passLog[i - 1].lastLine + 1 = e.firstLine
            /\ e.passIndex = 0 =>
                   (i > 1 => passLog[i - 1].poly < e.poly /\ LastPassOf(passLog[i - 1]))

C6_Witness ==
    /\ pc = "done"
    /\ Len(passLog) >= 6
    /\ \E i \in DOMAIN passLog : passLog[i].passIndex = 2 /\ LastPassOf(passLog[i])
    /\ \E i \in DOMAIN passLog : Cardinality(PlungeLinesOf(passLog[i])) = 2

\* The first edge of the polyline of an iteration is longer than 0.001, compared
\* on the squares.
LongFirstEdge(path) ==
    \E p0 \in {Unscaled(path[1])}, p1 \in {Unscaled(path[2])} :
        \E dx \in {FSub(p1.x, p0.x)}, dy \in {FSub(p1.y, p0.y)} :
            FLt(FMul(Dec(1), Dec(1)), FAdd(FMul(dx, dx), FMul(dy, dy)))

SpiralCase(entry) ==
    /\ entry.passIndex = 0
    /\ params.plungeMode = "spiral"
    /\ Len(PathOf(entry)) >= 2
    /\ LongFirstEdge(PathOf(entry))

\* The point (ax, ay) lies at the distance r from (x0, y0), on the perpendicular of
\* the edge from (x0, y0) to (x1, y1), to its left; all in thousandths, each
\* coordinate being a rounded text.
OnPerpendicular(ax, ay, x0, y0, x1, y1, r) ==
    \E ux \in {ax - x0}, uy \in {ay - y0}, dx \in {x1 - x0}, dy \in {y1 - y0} :
        /\ Abs(ux * dx + uy * dy) <= 2 * (Abs(ux) + Abs(uy) + Abs(dx) + Abs(dy)) + 4
        /\ Abs(ux * ux + uy * uy - r * r) <= 4 * r + 4
        /\ dx * uy - dy * ux > 0

\* The plunge lines of the iteration are the two moves of a spiral plunge.
IsSpiralPlunge(entry) ==
    /\ Len(PathOf(entry)) >= 2
    /\ \E l \in LinesOf(entry) :
           \E path \in {PathOf(entry)}, depth \in {CurrentDepth(params, entry.passIndex)} :
               \E p0 \in {Unscaled(path[1])}, p1 \in {Unscaled(path[2])} :
                   /\ PlungeLinesOf(entry) = {l, l + 1}
                   /\ gcodeLines[l].cmd = "G1 XYZ F" /\ gcodeLines[l + 1].cmd = "G1 XYZ F"
                   /\ gcodeLines[l].n = params.plungeRate /\ gcodeLines[l + 1].n = params.plungeRate
                   /\ OnPerpendicular(gcodeLines[l].x, gcodeLines[l].y,
                                      ToFixed3(p0.x), ToFixed3(p0.y), ToFixed3(p1.x), ToFixed3(p1.y),
                                      ToFixed3(FMul(<<3, -2>>, params.toolDiameter)))
                   /\ Abs(2 * gcodeLines[l].z - gcodeLines[l + 1].z) <= 1
                   /\ gcodeLines[l + 1].x = ToFixed3(p0.x) /\ gcodeLines[l + 1].y = ToFixed3(p0.y)
                   /\ gcodeLines[l + 1].z = -ToFixed3(depth)

\* The plunge of the iteration is one straight-down move to the pass depth.
IsVerticalPlunge(entry) ==
    \E l \in LinesOf(entry) :
        /\ PlungeLinesOf(entry) = {l}
        /\ gcodeLines[l].cmd = "G1 Z F"
        /\ gcodeLines[l].z = -ToFixed3(CurrentDepth(params, entry.passIndex))
        /\ gcodeLines[l].n = params.plungeRate

(***************************************************************************)
(* C7.  The two-move spiral plunge (out to the point at 0.75 * toolDiameter*)
(* on the perpendicular of the first edge at half the pass depth, then     *)
(* back to the first point at the pass depth) is emitted exactly when the  *)
(* pass is the first of its polyline, plungeMode is spiral, the polyline   *)
(* has at least two points and its first edge is longer than 0.001; in     *)
(* every other case the plunge is exactly one straight-down move to the    *)
(* pass depth at plungeRate.  Stated of the returned program, which holds  *)
(* every pass of the run.                                                  *)
(***************************************************************************)
C7_PlungeStrategy ==
    pc = "done" =>
        \A i \in DOMAIN passLog :
            IF SpiralCase(passLog[i])
            THEN IsSpiralPlunge(passLog[i]) /\ ~IsVerticalPlunge(passLog[i])
            ELSE IsVerticalPlunge(passLog[i]) /\ ~IsSpiralPlunge(passLog[i])

C7_Witness ==
    /\ params.plungeMode = "spiral"
    /\ \E i \in DOMAIN passLog : SpiralCase(passLog[i])
    /\ \E i \in DOMAIN passLog :
           /\ passLog[i].passIndex = 0
           /\ Len(PathOf(passLog[i])) >= 2
           /\ ~LongFirstEdge(PathOf(passLog[i]))
    /\ \E i \in DOMAIN passLog : passLog[i].passIndex = 0 /\ Len(PathOf(passLog[i])) = 1
    /\ \E i \in DOMAIN passLog : passLog[i].passIndex > 0

\* The absolute enclosed area of a polyline.
AbsArea(poly) == FAbs(Area(poly))

\* new is old sorted ascending by absolute area, polylines of equal area keeping
\* their order.
IsStableSortOf(new, old) ==
    /\ Len(new) = Len(old)
    /\ Len(old) > 0 =>
           \E perm \in Permutations(1..Len(old)) :
               /\ \A i \in 1..Len(old) : new[i] = old[perm[i]]
               /\ \A i, j \in 1..Len(old) :
                      i < j =>
                          /\ ~FLt(AbsArea(new[j]), AbsArea(new[i]))
                          /\ AbsArea(new[i]) = AbsArea(new[j]) => perm[i] < perm[j]

(***************************************************************************)
(* C8.  With pathOrdering inside-out the polylines are emitted in the      *)
(* order of a stable sort ascending by absolute enclosed area, polylines   *)
(* of equal area keeping their extraction order; with natural they are     *)
(* emitted in extraction order.                                            *)
(***************************************************************************)
C8_PathOrdering ==
    /\ [][ (pc = "paths" /\ pc' = "emit") =>
               IF params.pathOrdering = "inside-out"
               THEN IsStableSortOf(allFinalPaths', allFinalPaths)
               ELSE allFinalPaths' = allFinalPaths ]_vars
    /\ [][ pc = "emit" => allFinalPaths' = allFinalPaths ]_vars
    /\ [](\A i, j \in DOMAIN passLog : i < j => passLog[i].poly <= passLog[j].poly)
    /\ [](pc = "done" =>
              \A j \in DOMAIN allFinalPaths :
                  (Len(allFinalPaths[j]) > 0 /\ NumPasses(params) > 0) => PassesOf(j) # {})

C8_Witness ==
    /\ pc = "done"
    /\ params.pathOrdering = "inside-out"
    /\ params.cutMode = "on-line"
    /\ Len(paths) = 1
    /\ allFinalPaths # SubPathsOf(paths[1])
    /\ passLog # <<>>
    /\ \E i, j \in DOMAIN allFinalPaths :
           /\ i < j
           /\ allFinalPaths[i] # allFinalPaths[j]
           /\ AbsArea(allFinalPaths[i]) = AbsArea(allFinalPaths[j])

\* The polyline of one subpath in document coordinates, as the commands give it:
\* st is <<currentPos, subPaths, currentSubPath>>.
InputStep(st, cmd) ==
    IF cmd.code = "M"
    THEN <<Pt(cmd.x, cmd.y), IF Len(st[3]) > 0 THEN Append(st[2], st[3]) ELSE st[2],
           <<Pt(cmd.x, cmd.y)>> >>
    ELSE IF cmd.code = "H"
    THEN <<Pt(cmd.x, st[1].y), st[2], Append(st[3], Pt(cmd.x, st[1].y))>>
    ELSE IF cmd.code = "V"
    THEN <<Pt(st[1].x, cmd.y), st[2], Append(st[3], Pt(st[1].x, cmd.y))>>
    ELSE IF cmd.code = "C"
    THEN <<Pt(cmd.x, cmd.y), st[2],
           st[3] \o flattenCubicBezier(st[1], Pt(cmd.x1, cmd.y1), Pt(cmd.x2, cmd.y2),
                                       Pt(cmd.x, cmd.y), CubicSegments)>>
    ELSE IF cmd.code = "Q"
    THEN <<Pt(cmd.x, cmd.y), st[2],
           st[3] \o flattenQuadraticBezier(st[1], Pt(cmd.x1, cmd.y1), Pt(cmd.x, cmd.y),
                                           QuadSegments)>>
    ELSE <<Pt(cmd.x, cmd.y), st[2], Append(st[3], Pt(cmd.x, cmd.y))>>

RECURSIVE InputSteps(_, _, _)
InputSteps(st, commands, i) ==
    IF i > Len(commands) THEN st
    ELSE The({ InputSteps(next, commands, i + 1) : next \in {InputStep(st, commands[i])} })

InputSubPathsOf(commands) ==
    The({ IF Len(st[3]) > 0 THEN Append(st[2], st[3]) ELSE st[2] :
          st \in {InputSteps(<<Origin, <<>>, <<>>>>, commands, 1)} })

RECURSIVE InputPolylines(_, _)
\* The subpaths of the first n path elements, in extraction order.
InputPolylines(elements, n) ==
    IF n = 0 THEN <<>>
    ELSE InputPolylines(elements, n - 1) \o InputSubPathsOf(elements[n])

UnscaledAll(path) == [t \in 1..Len(path) |-> Unscaled(path[t])]

(***************************************************************************)
(* C9.  In on-line mode the offset stage is the identity: the polylines    *)
(* handed to emission are the input subpaths, as many of them, with the    *)
(* same points in the same order and coordinates equal to the input        *)
(* coordinates exactly, and ClipperOffset is not invoked.                  *)
(***************************************************************************)
C9_OnLineIdentity ==
    params.cutMode = "on-line" =>
        /\ offsetCalls = <<>>
        /\ warnings = 0
        /\ \A input \in {InputPolylines(paths, pathIdx - 1)} :
               /\ Len(allFinalPaths) = Len(input)
               /\ \A j \in DOMAIN allFinalPaths :
                      \E k \in DOMAIN input :
                          /\ UnscaledAll(allFinalPaths[j]) = input[k]
                          /\ params.pathOrdering = "natural" => k = j

\* The offset distance in Clipper's units: the number nearest to
\* toolDiameter * SCALE / 2.
HalfDiameterScaled == RoundMag(Abs(params.toolDiameter[1]) * (SCALE \div 2), params.toolDiameter[2])

\* What every offset operation is executed with, whatever it is handed.
OffsetSettings(call) ==
    /\ \A i \in DOMAIN call.added :
           call.added[i].joinType = "jtRound" /\ call.added[i].endType = "etClosedPolygon"
    /\ FAbs(call.delta) = HalfDiameterScaled
    /\ params.cutMode = "inside" => call.delta[1] < 0
    /\ params.cutMode = "outside" => call.delta[1] > 0

(***************************************************************************)
(* C10.  As claimed: in inside and outside mode every subpath is offset    *)
(* on its own, one offset operation per subpath, as a closed polygon with  *)
(* round joins by the signed distance of magnitude toolDiameter / 2 * 1000,*)
(* negative for inside and positive for outside.                           *)
(***************************************************************************)
C10_OffsetPerSubpath ==
    params.cutMode \in {"inside", "outside"} =>
        \A input \in {InputPolylines(paths, pathIdx - 1)} :
            /\ Len(offsetCalls) = Len(input)
            /\ \A k \in DOMAIN offsetCalls :
                   /\ Len(offsetCalls[k].added) = 1
                   /\ OffsetSettings(offsetCalls[k])

(***************************************************************************)
(* C10, amended.  In inside and outside mode there is one offset operation *)
(* per path element: all the subpaths of the element are added to it, in   *)
(* order, each as a closed polygon with round joins, and it is executed    *)
(* once with the signed distance of magnitude toolDiameter / 2 * 1000,     *)
(* negative for inside and positive for outside.  The operations are      *)
(* compared with the path elements when the run has ended, returned or     *)
(* thrown.                                                                 *)
(***************************************************************************)
C10_OffsetPerPathElement ==
    params.cutMode \in {"inside", "outside"} =>
        /\ Len(offsetCalls) = pathIdx - 1
        /\ pc \in {"done", "failed"} =>
               \A k \in DOMAIN offsetCalls :
                   \A subPaths \in {SubPathsOf(paths[k])} :
                       /\ Len(offsetCalls[k].added) = Len(subPaths)
                       /\ \A i \in DOMAIN subPaths : offsetCalls[k].added[i].path = subPaths[i]
                       /\ OffsetSettings(offsetCalls[k])

C10_Witness ==
    /\ params.cutMode = "inside"
    /\ \E k \in DOMAIN offsetCalls : Len(offsetCalls[k].added) = 2
    /\ \E k \in DOMAIN offsetCalls : Len(offsetCalls[k].added) = 1
    /\ allFinalPaths # <<>>

\* A number with no fractional part.
IsInteger(a) == a[2] >= 0

(***************************************************************************)
(* C11.  Every coordinate handed to the offsetting primitive is an integer *)
(* of the fixed-point system (document units times 1000), for coordinates  *)
(* with more than three decimals and for flattened curve points too.       *)
(***************************************************************************)
C11_IntegerCoordinates ==
    \A k \in DOMAIN offsetCalls :
        \A i \in DOMAIN offsetCalls[k].added :
            \A t \in DOMAIN offsetCalls[k].added[i].path :
                /\ IsInteger(offsetCalls[k].added[i].path[t].X)
                /\ IsInteger(offsetCalls[k].added[i].path[t].Y)

RECURSIVE Kept(_, _)
\* The polygons of the first n offset operations, those that returned nothing
\* left out.
Kept(returns, n) ==
    IF n = 0 THEN <<>>
    ELSE IF returns[n] = <<>> THEN Kept(returns, n - 1)
    ELSE Kept(returns, n - 1) \o returns[n]

(***************************************************************************)
(* C12.  When the offset of a feature returns no polygon the run goes on:  *)
(* a diagnostic is issued, nothing is emitted for the feature, every       *)
(* remaining path element is processed, and the polylines cut and the      *)
(* program are those of the features whose offset returned something.      *)
(***************************************************************************)
C12_CollapsedOffset ==
    params.cutMode \in {"inside", "outside"} =>
        /\ warnings = Cardinality({k \in DOMAIN offsetReturns : offsetReturns[k] = <<>>})
        /\ pc = "paths" =>
               /\ Len(offsetReturns) = pathIdx - 1
               /\ allFinalPaths = Kept(offsetReturns, Len(offsetReturns))
        /\ pc \in {"emit", "done"} => Len(offsetReturns) = Len(paths)
        /\ pc = "done" =>
               /\ allFinalPaths = OrderedPaths(Kept(offsetReturns, Len(offsetReturns)), params)
               /\ \A l \in (Len(Header(params)) + 1)..(Len(gcodeLines) - Len(Footer)) :
                      \E i \in DOMAIN passLog : l \in LinesOf(passLog[i])
               /\ \A g \in 1..(Len(visualizationSegments) - 1) :
                      \E i \in DOMAIN passLog :
                          g \in passLog[i].firstSegment..passLog[i].lastSegment
               /\ \A i \in DOMAIN passLog : passLog[i].poly \in DOMAIN allFinalPaths

C12_Witness ==
    /\ pc = "done"
    /\ params.cutMode = "inside"
    /\ Len(offsetReturns) = 2
    /\ offsetReturns[1] = <<>>
    /\ offsetReturns[2] # <<>>
    /\ warnings = 1
    /\ passLog # <<>>

\* A ToolParameters value the specification calls a configuration error.
IsInvalid(tool) ==
    \/ tool.passDepth[1] <= 0
    \/ tool.toolDiameter[1] <= 0
    \/ tool.feedRate[1] <= 0
    \/ tool.plungeRate[1] <= 0

(***************************************************************************)
(* C13.  A request whose passDepth, toolDiameter, feedRate or plungeRate   *)
(* is not positive is rejected before the pipeline runs: no program text   *)
(* and no segment is produced, no path element is processed, the pass loop *)
(* is never entered and nothing is returned.                               *)
(***************************************************************************)
C13_InvalidRejected ==
    IsInvalid(params) =>
        /\ pc \in {"start", "failed"}
        /\ gcodeLines = <<>>
        /\ visualizationSegments = <<>>
        /\ passLog = <<>>
        /\ \A r \in DOMAIN finished :
               finished[r].params = params => finished[r].outcome = "thrown"

\* The markup, or one of the path-data strings in it, is malformed.
MalformedInput(content) ==
    \/ ~content.wellFormed
    \/ \E k \in DOMAIN content.paths : IsMalformed(content.paths[k])

(***************************************************************************)
(* C14.  If the document or a path-data string in it is malformed, the run *)
(* ends with a failure reported to the caller and returns nothing: no      *)
(* program text and no segment list, also when path elements before the    *)
(* malformed one were processed.                                           *)
(***************************************************************************)
C14_MalformedInput ==
    /\ MalformedInput(svgContent) =>
           /\ pc # "done"
           /\ passLog = <<>>
           /\ \A k \in 1..(pathIdx - 1) : ~IsMalformed(paths[k])
           /\ pc = "failed" => finished # <<>> /\ finished[Len(finished)] = Thrown
    /\ \A r \in DOMAIN finished :
           MalformedInput(finished[r].svgContent) =>
               /\ finished[r].outcome = "thrown"
               /\ finished[r].gcode = <<>>
               /\ finished[r].segments = <<>>
    /\ pc = "failed" => MalformedInput(svgContent)

C14_Witness ==
    /\ pc = "failed"
    /\ svgContent.wellFormed
    /\ allFinalPaths # <<>>
    /\ gcodeLines # <<>>
    /\ finished = <<Thrown>>

(***************************************************************************)
(* C15.  generateGCode is deterministic and keeps nothing between          *)
(* invocations: two invocations with the same document and the same        *)
(* parameters (and the same answers of the offsetting primitive), in any   *)
(* order and with other invocations in between, give back the same program *)
(* text and the same segments, and every invocation starts with its head   *)
(* position at the origin.                                                 *)
(***************************************************************************)
C15_Deterministic ==
    /\ \A i, j \in DOMAIN finished :
           ( /\ finished[i].svgContent = finished[j].svgContent
             /\ finished[i].params = finished[j].params
             /\ finished[i].offsetReturns = finished[j].offsetReturns ) =>
               /\ finished[i].outcome = finished[j].outcome
               /\ finished[i].gcode = finished[j].gcode
               /\ finished[i].segments = finished[j].segments
    /\ \A r \in DOMAIN finished :
           finished[r].outcome = "returned" => finished[r].segments[1].p1 = Origin
    /\ pc = "start" => Entered(svgContent, params)

C15_Witness ==
    /\ Len(finished) = 3
    /\ finished[1] = finished[3]
    /\ finished[2] # finished[1]
    /\ finished[1].outcome = "returned"
    /\ finished[2].outcome = "returned"
    /\ \E g \in DOMAIN finished[1].segments :
           finished[1].segments[g].type = "G1" /\ finished[1].segments[g].p2 # Origin

\* The last three lines of the program, as their G-code words.
LastWords ==
    [k \in 1..3 |-> gcodeLines[Len(gcodeLines) - 3 + k].cmd]

\* The last segment is a rapid from the final head position to the origin.
LastSegmentHome ==
    \E n \in {Len(visualizationSegments)} :
        /\ n >= 1
        /\ visualizationSegments[n] = Segment(headPos, Origin, "G0")
        /\ n > 1 => visualizationSegments[n].p1 = visualizationSegments[n - 1].p2
        /\ n = 1 => visualizationSegments[n].p1 = Origin

\* The words of the footer occur nowhere before the last three lines, and the
\* return to the origin is the line G0 X0 Y0.
FooterOnlyAtEnd ==
    /\ \A l \in 1..(Len(gcodeLines) - 3) : gcodeLines[l].cmd \notin {"M5", "M30"}
    /\ \A l \in (Len(gcodeLines) - 2)..Len(gcodeLines) :
           gcodeLines[l].cmd = "G0 XY" => gcodeLines[l].x = 0 /\ gcodeLines[l].y = 0

(***************************************************************************)
(* C16.  As claimed: after all polylines the program ends with the rapid   *)
(* return to the origin, then the spindle stop, then the program end, and  *)
(* the last segment is a rapid from the final head position to the origin. *)
(***************************************************************************)
C16_ReturnThenStop ==
    pc = "done" =>
        /\ LastWords = <<"G0 XY", "M5", "M30">>
        /\ FooterOnlyAtEnd
        /\ LastSegmentHome

(***************************************************************************)
(* C16, amended.  After all polylines the program ends with the spindle    *)
(* stop, then the rapid return to the origin, then the program end, and    *)
(* the last segment is a rapid from the final head position to the origin. *)
(***************************************************************************)
C16_StopThenReturn ==
    pc = "done" =>
        /\ LastWords = <<"M5", "G0 XY", "M30">>
        /\ FooterOnlyAtEnd
        /\ LastSegmentHome

C16_Witness ==
    /\ pc = "done"
    /\ Len(passLog) >= 2
    /\ headPos # Origin
    /\ Len(visualizationSegments) >= 3

(***************************************************************************)
(* C17.  The segment list is one continuous chain of the head position:    *)
(* the first segment starts at the origin, every segment starts where the  *)
(* one before ends, the chain ends at the head position while the run goes *)
(* on, and the last segment of the returned list ends at the origin.       *)
(***************************************************************************)
C17_SegmentChain ==
    /\ visualizationSegments # <<>> => visualizationSegments[1].p1 = Origin
    /\ \A g \in 2..Len(visualizationSegments) :
           visualizationSegments[g].p1 = visualizationSegments[g - 1].p2
    /\ (pc = "emit" /\ visualizationSegments # <<>>) =>
           visualizationSegments[Len(visualizationSegments)].p2 = headPos
    /\ pc = "done" =>
           /\ visualizationSegments # <<>>
           /\ visualizationSegments[Len(visualizationSegments)].p2 = Origin
           /\ finished[Len(finished)].segments = visualizationSegments

C17_Witness ==
    /\ pc = "done"
    /\ params.plungeMode = "spiral"
    /\ Len(allFinalPaths) >= 3
    /\ \E i \in DOMAIN passLog : passLog[i].passIndex >= 2 /\ Len(PathOf(passLog[i])) = 2
    /\ \E i \in DOMAIN passLog : Cardinality(PlungeLinesOf(passLog[i])) = 2
    /\ Len(visualizationSegments) > 8

\* The line carries X and Y words.
IsLateral(line) == line.cmd \in {"G0 XY", "G1 XY", "G1 XYZ F"}

RECURSIVE LateralLines(_)
\* The indices of the lines among the first n that carry X and Y words, in order.
LateralLines(n) ==
    IF n = 0 THEN <<>>
    ELSE IF IsLateral(gcodeLines[n]) THEN Append(LateralLines(n - 1), n)
    ELSE LateralLines(n - 1)

(***************************************************************************)
(* C18.  The segment list mirrors the lateral motion of the program: the   *)
(* segments are, in the same order, the G0 and G1 instructions that carry  *)
(* X and Y, each with the kind and the end point of its instruction;       *)
(* instructions with Z only contribute no segment, and every cut move of   *)
(* every pass contributes exactly one G1 segment.                          *)
(***************************************************************************)
C18_SegmentsMirrorProgram ==
    pc = "done" =>
        \A lateral \in {LateralLines(Len(gcodeLines))} :
            /\ Len(lateral) = Len(visualizationSegments)
            /\ \A k \in DOMAIN lateral :
                   \A line \in {gcodeLines[lateral[k]]}, segment \in {visualizationSegments[k]} :
                       /\ segment.type = (IF line.cmd = "G0 XY" THEN "G0" ELSE "G1")
                       /\ ToFixed3(segment.p2.x) = line.x
                       /\ ToFixed3(segment.p2.y) = line.y
            /\ \A i \in DOMAIN passLog :
                   /\ \A l \in CutLinesOf(passLog[i]) :
                          \E k \in passLog[i].firstSegment..passLog[i].lastSegment :
                              lateral[k] = l /\ visualizationSegments[k].type = "G1"
                   /\ Cardinality({l \in LinesOf(passLog[i]) : IsLateral(gcodeLines[l])}) =
                          passLog[i].lastSegment - passLog[i].firstSegment + 1

C18_Witness ==
    /\ pc = "done"
    /\ params.plungeMode = "spiral"
    /\ \E i \in DOMAIN passLog : Cardinality(PlungeLinesOf(passLog[i])) = 2
    /\ \E i \in DOMAIN passLog :
           passLog[i].passIndex > 0 /\ Cardinality(CutLinesOf(passLog[i])) > 2
    /\ \E l \in DOMAIN gcodeLines : gcodeLines[l].cmd = "G1 Z F"

RECURSIVE LastZ(_)
\* The last of the first n lines that commands a Z, 0 if there is none.
LastZ(n) ==
    IF n = 0 THEN 0
    ELSE IF gcodeLines[n].cmd \in {"G0 Z", "G1 Z F", "G1 XYZ F"} THEN n
    ELSE LastZ(n - 1)

\* The tool is at safeZ when line l is executed.
AtSafeZ(l) ==
    \E z \in {LastZ(l - 1)} :
        /\ z > 0
        /\ gcodeLines[z].cmd = "G0 Z"
        /\ gcodeLines[z].n = params.safeZ

(***************************************************************************)
(* C19.  Whenever a rapid lateral move is executed (the rapid to the start *)
(* of a polyline, the return to the origin) the tool is at safeZ: the last *)
(* Z commanded before it is the rapid to safeZ.  A plunge is followed by   *)
(* the retract to safeZ before the next rapid lateral move.                *)
(***************************************************************************)
C19_RapidAtSafeZ ==
    pc = "done" =>
        /\ \A l \in DOMAIN gcodeLines : gcodeLines[l].cmd = "G0 XY" => AtSafeZ(l)
        /\ \A l \in DOMAIN gcodeLines :
               gcodeLines[l].cmd \in {"G1 Z F", "G1 XYZ F"} =>
                   \E r \in (l + 1)..Len(gcodeLines) :
                       /\ gcodeLines[r].cmd = "G0 Z"
                       /\ gcodeLines[r].n = params.safeZ
                       /\ \A m \in l..r : gcodeLines[m].cmd # "G0 XY"
        /\ AtSafeZ(Len(gcodeLines) + 1)

C19_Witness ==
    /\ pc = "done"
    /\ Len(allFinalPaths) >= 2
    /\ \E i, j \in DOMAIN passLog :
           /\ passLog[i].poly < passLog[j].poly
           /\ passLog[i].passIndex >= 1
    /\ Cardinality({l \in DOMAIN gcodeLines : gcodeLines[l].cmd = "G0 XY"}) >= 3

RECURSIVE LastF(_)
\* The last of the first n lines that sets the feed rate, 0 if there is none.
LastF(n) ==
    IF n = 0 THEN 0
    ELSE IF gcodeLines[n].cmd \in {"F", "G1 Z F", "G1 XYZ F"} THEN n
    ELSE LastF(n - 1)

(***************************************************************************)
(* C20.  Every lateral cut move is executed with the modal feed rate equal *)
(* to feedRate: the last line that set the feed rate before it is an F     *)
(* line with feedRate, and in every pass such a line lies between the      *)
(* plunge, which sets plungeRate, and the first cut move.                  *)
(***************************************************************************)
C20_CutAtFeedRate ==
    pc = "done" =>
        /\ \A l \in DOMAIN gcodeLines :
               gcodeLines[l].cmd = "G1 XY" =>
                   \E f \in {LastF(l - 1)} :
                       /\ f > 0
                       /\ gcodeLines[f].cmd = "F"
                       /\ gcodeLines[f].n = params.feedRate
        /\ \A i \in DOMAIN passLog :
               \E f \in LinesOf(passLog[i]) :
                   /\ gcodeLines[f].cmd = "F" /\ gcodeLines[f].n = params.feedRate
                   /\ \A pl \in PlungeLinesOf(passLog[i]) :
                          pl < f /\ gcodeLines[pl].n = params.plungeRate
                   /\ \A c \in CutLinesOf(passLog[i]) : f < c

C20_Witness ==
    /\ pc = "done"
    /\ params.feedRate # params.plungeRate
    /\ \E i \in DOMAIN passLog : Cardinality(PlungeLinesOf(passLog[i])) = 2
    /\ \E i \in DOMAIN passLog :
           passLog[i].passIndex > 0 /\ Cardinality(CutLinesOf(passLog[i])) >= 1

====
